---- MODULE Spec2Model ----
(***************************************************************************)
(* A model of the geckos.io signalling and messaging core:                 *)
(*   - the client channel's reliable-message ledger (ClientChannel.on),    *)
(*   - the candidate poller's backoff schedule (showBackOffIntervals),     *)
(*   - the client handshake that schedules the polls (connect/reconnect),  *)
(*   - the server's connections: track routing (setupStreams), offers,     *)
(*     the readiness wait and the HTTP endpoints.                          *)
(* Each part has its own specification over the shared variables; the      *)
(* variables of the other parts stay at their idle values.                 *)
(***************************************************************************)
EXTENDS Integers, Sequences, FiniteSets, TLC

None == "none"

(***************************************************************************)
(* Bounds of the model.                                                    *)
(***************************************************************************)
MaxEmits == 3        \* envelopes received on the client channel
MaxListeners == 2    \* listeners registered with ClientChannel.on
MaxTime == 15001     \* the clock stops here
MaxConns == 2        \* connections the server creates
MaxOffers == 2       \* offers one connection makes (the first and the reconnects)
MaxCandidates == 2   \* candidates one peer session discovers
MaxPhases == 2       \* descriptions one client receives (its connect and its reconnects)
MaxCallbacks == 2    \* callbacks registered with ClientChannel.onDisconnect
MaxInvocations == 2  \* times one onDisconnect callback is invoked

VARIABLES
  now,                        \* the wall clock (ms), new Date().getTime()
  receivedReliableMessages,   \* ClientChannel.receivedReliableMessages
  listeners,                  \* event names of the listeners of ClientChannel.on, in order
  emits,                      \* number of envelopes received so far
  lastEmit,                   \* what the last received envelope did
  accepted,                   \* per ID: arrival time of the last delivered envelope
  recorded,                   \* per ID: time the ID was last recorded in the ledger
  dupSince,                   \* per ID: an envelope with the ID arrived since it was recorded
  rand,                       \* the Math.random() draws of one showBackOffIntervals call
  intervals,                  \* the delays showBackOffIntervals returned
  enableAudio,                \* serverOptions.enableAudio
  enableVideo,                \* serverOptions.enableVideo
  nextId,                     \* the next connection id the registry hands out
  connections,                \* the registry: ids of the live connections
  connState,                  \* Connection.state per id: none (not created), open, closed
  peer,                       \* WebRTCConnection.peerConnection per id
  transceivers,               \* the transceivers added to each peerConnection, in order
  audio,                      \* WebRTCConnection.audio: index of the own transceiver, 0 if unset
  video,                      \* WebRTCConnection.video
  audioMap,                   \* WebRTCConnection.audioMap: peer id -> transceiver index
  videoMap,                   \* WebRTCConnection.videoMap
  localDescription,           \* number of the offer installed as local description, 0 if none
  inflight,                   \* per id: the doOffer calls suspended at an await
  additionalCandidates,       \* WebRTCConnection.additionalCandidates
  waits,                      \* per id: the calls of waitUntilIceGatheringStateComplete
  discovered,                 \* per id: candidates the peer session has discovered
  queuedLog,                  \* per id: every candidate ever pushed on the queue, in order
  returnedLog,                \* per id: every candidate ever returned by a poll, in order
  lastResponse,               \* the HTTP response the last step ended, if any: endpoint, id, status
  lastStreams,                \* the body the streams endpoint wrote in the last step, if any
  lastRequest,                \* the HTTP request the last step handled, if any: endpoint, path id
  stage,                      \* the client's handshake: idle, handshake and awaiting (connect()
                              \* suspended), connected, failed or closed
  timers,                     \* the client's pending setTimeout callbacks
  scheduled,                  \* per description received: the setTimeout calls made for it
  fetched,                    \* per description received: the fetches its timers have made
  received,                   \* number of connect/reconnect calls that received a description
  clientResult,               \* what the last connect/reconnect call returned
  lpc,                        \* connectionState of the client's localPeerConnection
  unhandled,                  \* the promises the last step left rejected and uncaught
  notified,                   \* the last step emitted DISCONNECTED on the client
  installed,                  \* the last step called addIceCandidate on localPeerConnection
  remote,                     \* localPeerConnection has a remote description
  dataChannel,                \* ConnectionsManagerClient.dataChannel is set
  dcFired,                    \* localPeerConnection has fired its datachannel event
  closedEvent,                \* localPeerConnection.close() was called and the state change
                              \* to closed was not yet reported to onconnectionstatechange
  userData,                   \* the body of POST /connections held userData
  disconnectListeners,        \* the bridge's listeners of DISCONNECTED, in order: 0 is the
                              \* constructor's, k > 0 the k-th onDisconnect callback
  disconnectCalls,            \* per onDisconnect callback: the times it was invoked
  registeredEarly             \* the callbacks registered before the first DISCONNECTED

ledgerVars == <<receivedReliableMessages, listeners, emits, lastEmit, accepted,
                recorded, dupSince>>

backoffVars == <<rand, intervals>>

routeVars == <<connections, connState, peer, transceivers, audio, video, audioMap,
               videoMap>>

gatherVars == <<additionalCandidates, waits, discovered, queuedLog, returnedLog>>

serverVars == <<enableAudio, enableVideo, nextId, routeVars, localDescription, inflight,
                gatherVars, lastResponse, lastStreams, lastRequest>>

handshakeVars == <<remote, dataChannel, dcFired, userData>>

bridgeVars == <<disconnectListeners, disconnectCalls, registeredEarly>>

clientVars == <<stage, timers, scheduled, fetched, received, clientResult, lpc,
                unhandled, notified, installed, closedEvent, handshakeVars, bridgeVars>>

vars == <<now, ledgerVars, backoffVars, serverVars, clientVars>>

nonLedger == <<backoffVars, serverVars, clientVars>>
nonBackoff == <<now, ledgerVars, serverVars, clientVars>>
nonServer == <<ledgerVars, backoffVars, clientVars>>
nonClient == <<ledgerVars, backoffVars, serverVars>>

(***************************************************************************)
(* The candidate poller's schedule: showBackOffIntervals                   *)
(***************************************************************************)
attempts == 10
initial == 50
\* factor = 1.8 = factorNum / factorDen
factorNum == 9
factorDen == 5
jitter == 20

\* A draw of Math.random() * jitter, a number in [0, jitter): in thousandths, or,
\* below 0.000001, by the leading digit of its exponent notation ("9.5e-7").
JitterDraws ==
  [tiny : {FALSE}, milli : {0, 1000 * jitter - 1}, digit : {0}]
    \cup [tiny : {TRUE}, milli : {0}, digit : {9}]

\* a jitter term that rounds the draw to the nearest integer
JitterTermRounded(draw) ==
  IF draw.tiny THEN 0 ELSE (draw.milli + 500) \div 1000

\* parseInt((Math.random() * jitter).toString()): the integer part of the draw;
\* of a number in exponent notation parseInt reads the leading digit.
JitterTerm(draw) ==
  IF draw.tiny THEN draw.digit ELSE draw.milli \div 1000

\* initial * factor ** index as the fraction BaseNum / BaseDen (initial = 2 * 5^2,
\* which the reduced form cancels against factorDen^index from index 2 on)
BaseNum(index) ==
  IF index < 2 THEN initial * factorNum ^ index
               ELSE (initial \div (factorDen * factorDen)) * factorNum ^ index
BaseDen(index) ==
  IF index < 2 THEN factorDen ^ index ELSE factorDen ^ (index - 2)

\* a base that does not grow with the index
BackoffBaseFlat(index) == initial

\* parseInt((initial * factor ** index).toString()): the integer part
BackoffBase(index) == BaseNum(index) \div BaseDen(index)

\* Array(attempts).fill(0).map((_, index) => base + jitter term); index is 0-based
showBackOffIntervalsShort(draws) ==
  [k \in 1..(attempts - 1) |-> BackoffBase(k - 1) + JitterTerm(draws[k])]

showBackOffIntervals(draws) ==
  [k \in 1..attempts |-> BackoffBase(k - 1) + JitterTerm(draws[k])]

BackoffIdle == rand = <<>> /\ intervals = <<>>

BackoffInit ==
  /\ rand \in [1..attempts -> JitterDraws]
  /\ intervals = <<>>

ShowBackOffIntervals ==
  /\ intervals = <<>>
  /\ intervals' = showBackOffIntervals(rand)
  /\ UNCHANGED rand
  /\ UNCHANGED nonBackoff

(***************************************************************************)
(* The reliability ledger: ClientChannel.on                                *)
(***************************************************************************)
expireTime == 15000

EventNames == {"e1", "e2"}
\* IDs are the random 24 character strings of makeReliable
MessageIds == {"a", "b"}
Payloads == {"p"}

\* what a listener can receive: plain data, or a reliable envelope
\* {MESSAGE, RELIABLE: 1, ID}
Envelopes ==
  [RELIABLE : {0}, ID : {None}, MESSAGE : Payloads]
    \cup [RELIABLE : {1}, ID : MessageIds, MESSAGE : Payloads]

\* steps the clock takes between two events
ClockSteps == {5000, 15000}

\* ms that may pass between the clock reads of one handler run
ClockSkews == {0, 1}

isReliableMessage(data) == data.RELIABLE = 1 /\ data.ID # "undefined"

Splice(object, index) ==
  [k \in 1..(Len(object) - 1) |-> IF k < index THEN object[k] ELSE object[k + 1]]

\* a prune pass that compares the time of receipt instead of the expiry time
IsExpiredByTimestamp(msg, currentTime) == msg.timestamp <= currentTime

IsExpired(msg, currentTime) == msg.expire <= currentTime

\* Array.prototype.forEach: the length is read once, the indices are visited in
\* order, and an index that is no longer present is skipped; the callback
\* splices the array it iterates over.
RECURSIVE ForEachSplice(_, _, _, _)
ForEachSplice(object, index, len, currentTime) ==
  IF index > len \/ index > Len(object)
    THEN object
    ELSE IF IsExpired(object[index], currentTime)
      THEN ForEachSplice(Splice(object, index), index + 1, len, currentTime)
      ELSE ForEachSplice(object, index + 1, len, currentTime)

deleteExpiredReliableMessages(msgs, currentTime) ==
  ForEachSplice(msgs, 1, Len(msgs), currentTime)

\* receivedReliableMessages.filter(obj => obj.id === data.ID).length === 0
NotTracked(msgs, id) == \A k \in 1..Len(msgs) : msgs[k].id # id

\* One run of the listener that ClientChannel.on registers: the ledger after it
\* and the arguments the application callback was invoked with (none or one).
\* t is the clock read by the prune pass, t2 >= t the clock read by the push.
OnHandler(msgs, data, t, t2) ==
  IF isReliableMessage(data)
    THEN LET pruned == deleteExpiredReliableMessages(msgs, t)
         IN  IF NotTracked(pruned, data.ID)
               THEN [msgs |-> Append(pruned, [id |-> data.ID, timestamp |-> t2,
                                              expire |-> t2 + expireTime]),
                     args |-> <<data.MESSAGE>>]
               ELSE [msgs |-> pruned, args |-> <<>>]
    ELSE [msgs |-> msgs, args |-> <<data>>]

\* bridge.emit(key, data): the listeners of the event run in registration order
RECURSIVE RunListeners(_, _, _, _, _, _)
RunListeners(k, ev, msgs, data, t, t2) ==
  IF k > Len(listeners) THEN [msgs |-> msgs, invoked |-> <<>>]
  ELSE IF listeners[k] # ev THEN RunListeners(k + 1, ev, msgs, data, t, t2)
  ELSE LET r == OnHandler(msgs, data, t, t2)
           rest == RunListeners(k + 1, ev, r.msgs, data, t, t2)
       IN  [msgs |-> rest.msgs,
            invoked |-> [j \in 1..Len(r.args) |-> [listener |-> k, arg |-> r.args[j]]]
                          \o rest.invoked]

NoEmit == [ev |-> None, data |-> None, at |-> 0, invoked |-> <<>>, heard |-> 0,
           prevAccepted |-> -1, prevRecorded |-> -1, prevDup |-> FALSE,
           before |-> <<>>]

LedgerInit ==
  /\ receivedReliableMessages = <<>>
  /\ listeners = <<>>
  /\ emits = 0
  /\ lastEmit = NoEmit
  /\ accepted = [i \in MessageIds |-> -1]
  /\ recorded = [i \in MessageIds |-> -1]
  /\ dupSince = [i \in MessageIds |-> FALSE]

\* ClientChannel.on(eventName, callback)
On(ev) ==
  /\ Len(listeners) < MaxListeners
  /\ listeners' = Append(listeners, ev)
  /\ UNCHANGED <<now, receivedReliableMessages, emits, lastEmit, accepted, recorded,
                 dupSince>>
  /\ UNCHANGED nonLedger

\* dataChannel.onmessage: bridge.emit(key, data) runs every listener of the event
Emit(ev, data, skew) ==
  /\ emits < MaxEmits
  /\ LET r == RunListeners(1, ev, receivedReliableMessages, data, now, now + skew)
         heard == Cardinality({k \in 1..Len(listeners) : listeners[k] = ev})
     IN  /\ receivedReliableMessages' = r.msgs
         /\ emits' = emits + 1
         /\ lastEmit' = [ev |-> ev, data |-> data, at |-> now, invoked |-> r.invoked,
                         heard |-> heard,
                         prevAccepted |-> IF data.RELIABLE = 1 THEN accepted[data.ID] ELSE -1,
                         prevRecorded |-> IF data.RELIABLE = 1 THEN recorded[data.ID] ELSE -1,
                         prevDup |-> IF data.RELIABLE = 1 THEN dupSince[data.ID] ELSE FALSE,
                         before |-> receivedReliableMessages]
         /\ IF data.RELIABLE = 1 /\ heard > 0
              THEN /\ accepted' = IF r.invoked # <<>>
                                   THEN [accepted EXCEPT ![data.ID] = now] ELSE accepted
                   /\ recorded' = IF r.invoked # <<>>
                                   THEN [recorded EXCEPT ![data.ID] = now + skew] ELSE recorded
                   /\ dupSince' = [dupSince EXCEPT ![data.ID] = (r.invoked = <<>>)]
              ELSE UNCHANGED <<accepted, recorded, dupSince>>
  /\ UNCHANGED <<now, listeners>>
  /\ UNCHANGED nonLedger

\* time passes
Tick(d) ==
  /\ emits < MaxEmits
  /\ now + d <= MaxTime
  /\ now' = now + d
  /\ UNCHANGED ledgerVars
  /\ UNCHANGED nonLedger

(***************************************************************************)
(* The server: WebRTCConnection, the registry and the HTTP endpoints       *)
(***************************************************************************)
TIME_TO_HOST_CANDIDATES == 10000

ConnIds == 1..MaxConns

NewPeer == [closed |-> FALSE, connectionState |-> "new", iceGatheringState |-> "new",
            signalingState |-> "stable"]
NoPeer == [closed |-> FALSE, connectionState |-> None, iceGatheringState |-> None,
           signalingState |-> None]

\* peerConnection.close()
PeerClose(pc) ==
  [pc EXCEPT !.closed = TRUE, !.connectionState = "closed", !.signalingState = "closed"]
EmptyMap == [x \in {} |-> 0]

\* Map.set(k, v) and Map.delete(k)
MapSet(f, k, v) == [x \in (DOMAIN f) \cup {k} |-> IF x = k THEN v ELSE f[x]]
MapDelete(f, k) == [x \in (DOMAIN f) \ {k} |-> f[x]]

\* Map.forEach visits the entries in insertion order; ids are handed out in
\* increasing order, so that is the order of the ids
RECURSIVE InOrder(_)
InOrder(S) ==
  IF S = {} THEN <<>>
  ELSE LET m == CHOOSE x \in S : \A y \in S : x <= y
       IN  <<m>> \o InOrder(S \ {m})

\* peerConnection.addTransceiver(kind) followed by sender.replaceTrack(track):
\* track is the id of the connection whose receiver track the sender forwards,
\* 0 if the sender has no track; mid is 0 (null) until a local description
\* that offers the transceiver is installed
AddTransceiver(tr, c, kind, track) ==
  [tr EXCEPT ![c] = Append(@, [kind |-> kind, track |-> track, mid |-> 0])]

\* setLocalDescription(offer) gives a mid to the transceivers the offer has
\* a media section for: the first `offered` ones
AssignMids(trs, offered) ==
  [i \in 1..Len(trs) |->
     IF i <= offered /\ trs[i].mid = 0 THEN [trs[i] EXCEPT !.mid = i] ELSE trs[i]]

\* a setupStreams that does not record the new route in their connection's map
TheirMapSetSkipped(map, their, me, index) == map

\* theirConnection.videoMap.set(this.id, theirVideo)
TheirMapSet(map, their, me, index) == [map EXCEPT ![their] = MapSet(@, me, index)]

\* if (myVideo.sender.track) this.videoMap.set(theirConnection.id, myVideo)
MyMapSet(map, me, their, index, track) ==
  IF track # 0 THEN [map EXCEPT ![me] = MapSet(@, their, index)] ELSE map

\* the body of this.connections.forEach in setupStreams, for one kind;
\* own[c] is connection c's own transceiver of the kind (0 if it has none)
RECURSIVE WirePeers(_, _, _, _, _, _)
WirePeers(kind, me, peers, tr, map, own) ==
  IF peers = <<>> THEN [tr |-> tr, map |-> map]
  ELSE LET their == Head(peers)
           tr1 == AddTransceiver(tr, their, kind, me)
           map1 == TheirMapSet(map, their, me, Len(tr1[their]))
           track == IF own[their] # 0 THEN their ELSE 0
           tr2 == AddTransceiver(tr1, me, kind, track)
           map2 == MyMapSet(map1, me, their, Len(tr2[me]), track)
       IN  WirePeers(kind, me, Tail(peers), tr2, map2, own)

\* WebRTCConnection.setupStreams(enableAudio, enableVideo) of connection me
setupStreams(enableAudioArg, enableVideoArg, me) ==
  LET peers == InOrder(connections)
      vtr == IF enableVideoArg /\ video[me] = 0
               THEN AddTransceiver(transceivers, me, "video", 0) ELSE transceivers
      vown == IF enableVideoArg /\ video[me] = 0
                THEN [video EXCEPT ![me] = Len(vtr[me])] ELSE video
      v == IF enableVideoArg THEN WirePeers("video", me, peers, vtr, videoMap, vown)
                             ELSE [tr |-> vtr, map |-> videoMap]
      atr == IF enableAudioArg /\ audio[me] = 0
               THEN AddTransceiver(v.tr, me, "audio", 0) ELSE v.tr
      aown == IF enableAudioArg /\ audio[me] = 0
                THEN [audio EXCEPT ![me] = Len(atr[me])] ELSE audio
      a == IF enableAudioArg THEN WirePeers("audio", me, peers, atr, audioMap, aown)
                             ELSE [tr |-> atr, map |-> audioMap]
  IN  [tr |-> a.tr, video |-> vown, audio |-> aown, videoMap |-> v.map,
       audioMap |-> a.map]

\* Connection.close() (super.close()) and the registry: the connection is marked
\* closed, leaves the registry and is removed from every other connection's maps
ConnectionClose(c) ==
  /\ connState' = [connState EXCEPT ![c] = "closed"]
  /\ connections' = connections \ {c}
  /\ videoMap' = [x \in ConnIds |-> IF x = c THEN videoMap[x] ELSE MapDelete(videoMap[x], c)]
  /\ audioMap' = [x \in ConnIds |-> IF x = c THEN audioMap[x] ELSE MapDelete(audioMap[x], c)]

\* a close() that closes the peer session and does not call super.close()
closeWithoutSuper(c, pcs) ==
  /\ peer' = [pcs EXCEPT ![c] = PeerClose(@)]
  /\ UNCHANGED <<connState, connections, videoMap, audioMap>>

\* WebRTCConnection.close(): pcs are the peer sessions at the time of the call
close(c, pcs) ==
  /\ peer' = [pcs EXCEPT ![c] = PeerClose(@)]
  /\ ConnectionClose(c)

\* ids = pathname.match(/[0-9a-zA-Z]{24}/g): the length of the runs it looks for
IdRunLength == 24

\* the ids a request path can carry: len is the id's length, alnum whether it
\* is made of letters and digits only, prefix the connection whose id its
\* first 24 characters spell (0 if none); the registry's ids are 24 letters
\* and digits. One id with another character, and ids of letters and digits
\* that are too short, exact, longer by a few characters and twice as long
PathLengths == {3, IdRunLength, IdRunLength + 6, 2 * IdRunLength}
PathIds ==
  {path \in [len : PathLengths, alnum : BOOLEAN, prefix : ConnIds \cup {0}] :
     /\ (path.prefix # 0) => (path.alnum /\ path.len \in {IdRunLength, IdRunLength + 6})
     /\ ~path.alnum => path.len = 3}

\* the connection whose id the path id is, 0 if it is no connection's id
Named(path) == IF path.alnum /\ path.len = IdRunLength THEN path.prefix ELSE 0

\* the path id that is the id of connection c
IdOf(c) == [len |-> IdRunLength, alnum |-> TRUE, prefix |-> c]

\* the route's regular expression connections/[0-9a-zA-Z]+/<endpoint> matches
RouteMatches(path) == path.alnum

\* ids && ids.length === 1: the path has exactly one run of 24 letters and digits
OneId(path) == path.alnum /\ (path.len \div IdRunLength) = 1

\* the path of POST /connections carries no id
NoPath == [len |-> 0, alnum |-> FALSE, prefix |-> 0]

NoRequest == [op |-> None, path |-> NoPath]

Request(op, path) == [op |-> op, path |-> path]

NoResponse == [op |-> None, id |-> 0, status |-> 0]

Response(op, id, status) == [op |-> op, id |-> id, status |-> status]

\* a connection is live while it is in the registry and its peer session is open
Live(c) == c \in connections /\ ~peer[c].closed

\* no response of the streams endpoint was written in the last step
NoStreams == [id |-> 0, audio |-> EmptyMap, video |-> EmptyMap]

\* map.forEach((transceiver, channelId) => out.set(transceiver.mid, channelId))
\* followed by Object.fromEntries(out): keyed by mid, a later entry with the
\* same mid (null for every route not negotiated yet) replaces the earlier one
RECURSIVE MidToChannel(_, _, _, _)
MidToChannel(ids, map, trs, out) ==
  IF ids = <<>> THEN out
  ELSE MidToChannel(Tail(ids), map, trs, MapSet(out, trs[map[Head(ids)]].mid, Head(ids)))

ServerIdle ==
  /\ enableAudio = FALSE
  /\ enableVideo = FALSE
  /\ nextId = 1
  /\ connections = {}
  /\ connState = [c \in ConnIds |-> None]
  /\ peer = [c \in ConnIds |-> NoPeer]
  /\ transceivers = [c \in ConnIds |-> <<>>]
  /\ audio = [c \in ConnIds |-> 0]
  /\ video = [c \in ConnIds |-> 0]
  /\ audioMap = [c \in ConnIds |-> EmptyMap]
  /\ videoMap = [c \in ConnIds |-> EmptyMap]
  /\ localDescription = [c \in ConnIds |-> 0]
  /\ inflight = [c \in ConnIds |-> <<>>]
  /\ additionalCandidates = [c \in ConnIds |-> <<>>]
  /\ waits = [c \in ConnIds |-> <<>>]
  /\ discovered = [c \in ConnIds |-> 0]
  /\ queuedLog = [c \in ConnIds |-> <<>>]
  /\ returnedLog = [c \in ConnIds |-> <<>>]
  /\ lastResponse = NoResponse
  /\ lastStreams = NoStreams
  /\ lastRequest = NoRequest

\* the server starts with its options set and no connection
ServerInit(firstId, audioOptions, videoOptions) ==
  /\ enableAudio \in audioOptions
  /\ enableVideo \in videoOptions
  /\ nextId = firstId
  /\ connections = {}
  /\ connState = [c \in ConnIds |-> None]
  /\ peer = [c \in ConnIds |-> NoPeer]
  /\ transceivers = [c \in ConnIds |-> <<>>]
  /\ audio = [c \in ConnIds |-> 0]
  /\ video = [c \in ConnIds |-> 0]
  /\ audioMap = [c \in ConnIds |-> EmptyMap]
  /\ videoMap = [c \in ConnIds |-> EmptyMap]
  /\ localDescription = [c \in ConnIds |-> 0]
  /\ inflight = [c \in ConnIds |-> <<>>]
  /\ additionalCandidates = [c \in ConnIds |-> <<>>]
  /\ waits = [c \in ConnIds |-> <<>>]
  /\ discovered = [c \in ConnIds |-> 0]
  /\ queuedLog = [c \in ConnIds |-> <<>>]
  /\ returnedLog = [c \in ConnIds |-> <<>>]
  /\ lastResponse = NoResponse
  /\ lastStreams = NoStreams
  /\ lastRequest = NoRequest

\* ConnectionsManagerServer.createConnection: the new connection gets the next
\* id and is entered in the registry
RegistryAdd(me) ==
  /\ connState' = [connState EXCEPT ![me] = "open"]
  /\ connections' = connections \cup {me}
  /\ nextId' = nextId + 1

\* POST /connections: createConnection constructs the WebRTCConnection (the
\* constructor calls setupStreams(enableVideo, enableVideo)), registers it and
\* awaits doOffer
CreateConnection ==
  /\ nextId <= MaxConns
  /\ LET me == nextId
         s == setupStreams(enableVideo, enableVideo, me)
     IN  /\ transceivers' = s.tr
         /\ video' = s.video
         /\ audio' = s.audio
         /\ videoMap' = s.videoMap
         /\ audioMap' = s.audioMap
         /\ peer' = [peer EXCEPT ![me] = NewPeer]
         /\ RegistryAdd(me)
         /\ inflight' = [inflight EXCEPT ![me] = <<[op |-> "create", stage |-> "createOffer",
                                                    offered |-> 0]>>]
  /\ UNCHANGED <<now, enableAudio, enableVideo, localDescription, gatherVars>>
  /\ lastResponse' = NoResponse
  /\ lastStreams' = NoStreams /\ lastRequest' = Request("create", NoPath)
  /\ UNCHANGED nonServer

RemoveAt(q, k) == [j \in 1..(Len(q) - 1) |-> IF j < k THEN q[j] ELSE q[j + 1]]

\* the status the endpoint answers when doOffer throws: POST /connections ends
\* with 500, POST /connections/{id}/reconnect with 400
ErrorStatus(op) == IF op = "create" THEN 500 ELSE 400

\* doOffer's catch: console.error, this.close(), throw error
DoOfferFailed(c, k) ==
  /\ close(c, peer)
  /\ inflight' = [inflight EXCEPT ![c] = RemoveAt(@, k)]
  /\ lastResponse' = Response(inflight[c][k].op, c, ErrorStatus(inflight[c][k].op))
  /\ UNCHANGED <<now, enableAudio, enableVideo, nextId, transceivers, audio, video,
                 localDescription, gatherVars>>
  /\ lastStreams' = NoStreams /\ lastRequest' = NoRequest
  /\ UNCHANGED nonServer

\* doOffer: await this.peerConnection.createOffer() settles; a closed peer
\* session rejects
CreateOffer(c, k, ok) ==
  /\ k \in 1..Len(inflight[c])
  /\ inflight[c][k].stage = "createOffer"
  /\ peer[c].closed => ~ok
  /\ IF ok
       THEN /\ inflight' = [inflight EXCEPT ![c][k].stage = "setLocalDescription",
                                           ![c][k].offered = Len(transceivers[c])]
            /\ UNCHANGED <<now, enableAudio, enableVideo, nextId, routeVars,
                           localDescription, gatherVars>>
            /\ lastResponse' = NoResponse
            /\ lastStreams' = NoStreams /\ lastRequest' = NoRequest
            /\ UNCHANGED nonServer
       ELSE DoOfferFailed(c, k)

\* a call of waitUntilIceGatheringStateComplete that did not return at once: its
\* promise, its count totalIceCandidates, its icecandidate listener and its timer;
\* answered is the status the request that made the call was answered with
NewWait(t, status) ==
  [status |-> "pending", total |-> 0, listening |-> TRUE, timer |-> TRUE,
   startedAt |-> t, settledAt |-> -1, answered |-> status]

\* doOffer: await this.peerConnection.setLocalDescription(offer) settles; then
\* waitUntilIceGatheringStateComplete is called and not awaited, doOffer returns
\* and the endpoint answers with the connection's description
SetLocalDescription(c, k, ok, regather) ==
  /\ k \in 1..Len(inflight[c])
  /\ inflight[c][k].stage = "setLocalDescription"
  /\ peer[c].closed => ~ok
  /\ regather => (ok /\ peer[c].iceGatheringState = "complete")
  /\ IF ok
       THEN LET gs == IF peer[c].iceGatheringState = "new" \/ regather
                        THEN "gathering" ELSE peer[c].iceGatheringState
            IN  /\ peer' = [peer EXCEPT ![c].iceGatheringState = gs,
                                         ![c].signalingState = "have-local-offer"]
                /\ localDescription' = [localDescription EXCEPT ![c] = @ + 1]
                /\ transceivers' = [transceivers EXCEPT ![c] =
                                      AssignMids(@, inflight[c][k].offered)]
                /\ waits' = IF gs = "complete" THEN waits
                            ELSE [waits EXCEPT ![c] = Append(@, NewWait(now, 200))]
                /\ inflight' = [inflight EXCEPT ![c] = RemoveAt(@, k)]
                /\ lastResponse' = Response(inflight[c][k].op, c, 200)
                /\ UNCHANGED <<now, enableAudio, enableVideo, nextId, connections, connState,
                               audio, video, audioMap, videoMap,
                               additionalCandidates, discovered, queuedLog, returnedLog>>
                /\ lastStreams' = NoStreams /\ lastRequest' = NoRequest
                /\ UNCHANGED nonServer
       ELSE DoOfferFailed(c, k)

\* a reconnect that sets the connection's streams up again before its offer
ReconnectWithStreams(c) ==
  /\ c \in connections
  /\ localDescription[c] + Len(inflight[c]) < MaxOffers
  /\ LET s == setupStreams(enableVideo, enableVideo, c)
     IN  /\ transceivers' = s.tr
         /\ video' = s.video
         /\ audio' = s.audio
         /\ videoMap' = s.videoMap
         /\ audioMap' = s.audioMap
  /\ inflight' = [inflight EXCEPT ![c] = Append(@, [op |-> "reconnect",
                                                     stage |-> "createOffer",
                                                     offered |-> 0])]
  /\ lastResponse' = NoResponse
  /\ lastStreams' = NoStreams /\ lastRequest' = Request("reconnect", IdOf(c))
  /\ UNCHANGED <<now, enableAudio, enableVideo, nextId, connections, connState, peer,
                 localDescription, gatherVars>>
  /\ UNCHANGED nonServer

\* POST /connections/{id}/reconnect: connection.reconnect() awaits doOffer
Reconnect(c) ==
  /\ IF c \in connections
       THEN /\ localDescription[c] + Len(inflight[c]) < MaxOffers
            /\ inflight' = [inflight EXCEPT ![c] = Append(@, [op |-> "reconnect",
                                                               stage |-> "createOffer",
                                                               offered |-> 0])]
            /\ lastResponse' = NoResponse
       ELSE /\ lastResponse' = Response("reconnect", c, 404)
            /\ UNCHANGED inflight
  /\ UNCHANGED <<now, enableAudio, enableVideo, nextId, routeVars, localDescription,
                 gatherVars>>
  /\ lastStreams' = NoStreams /\ lastRequest' = Request("reconnect", IdOf(c))
  /\ UNCHANGED nonServer

\* onIceCandidate of one wait: candidate is a candidate's number, or 0 for the
\* null candidate that ends the gathering
onIceCandidate(w, candidate, t) ==
  IF ~w.listening THEN w
  ELSE IF candidate # 0 THEN [w EXCEPT !.total = @ + 1]
  ELSE [w EXCEPT !.total = @ + 1, !.timer = FALSE, !.listening = FALSE,
                 !.status = "resolved", !.settledAt = t]

\* the candidates the listeners of the connection push for one event: every
\* listening wait pushes the candidate
RECURSIVE Pushes(_, _, _)
Pushes(ws, k, candidate) ==
  IF k > Len(ws) THEN <<>>
  ELSE (IF ws[k].listening THEN <<candidate>> ELSE <<>>) \o Pushes(ws, k + 1, candidate)

\* the peer session discovers a candidate: an icecandidate event
IceCandidate(c) ==
  /\ connState[c] = "open"
  /\ ~peer[c].closed
  /\ peer[c].iceGatheringState = "gathering"
  /\ discovered[c] < MaxCandidates
  /\ LET candidate == discovered[c] + 1
         pushed == Pushes(waits[c], 1, candidate)
     IN  /\ discovered' = [discovered EXCEPT ![c] = candidate]
         /\ waits' = [waits EXCEPT ![c] =
                        [k \in 1..Len(@) |-> onIceCandidate(@[k], candidate, now)]]
         /\ additionalCandidates' = [additionalCandidates EXCEPT ![c] = @ \o pushed]
         /\ queuedLog' = [queuedLog EXCEPT ![c] = @ \o pushed]
  /\ UNCHANGED <<now, enableAudio, enableVideo, nextId, routeVars, localDescription,
                 inflight, returnedLog>>
  /\ lastResponse' = NoResponse
  /\ lastStreams' = NoStreams /\ lastRequest' = NoRequest
  /\ UNCHANGED nonServer

\* the gathering ends: an icecandidate event with the null candidate
IceGatheringComplete(c) ==
  /\ connState[c] = "open"
  /\ ~peer[c].closed
  /\ peer[c].iceGatheringState = "gathering"
  /\ peer' = [peer EXCEPT ![c].iceGatheringState = "complete"]
  /\ waits' = [waits EXCEPT ![c] = [k \in 1..Len(@) |-> onIceCandidate(@[k], 0, now)]]
  /\ UNCHANGED <<now, enableAudio, enableVideo, nextId, connections, connState,
                 transceivers, audio, video, audioMap, videoMap, localDescription,
                 inflight, additionalCandidates, discovered, queuedLog, returnedLog>>
  /\ lastResponse' = NoResponse
  /\ lastStreams' = NoStreams /\ lastRequest' = NoRequest
  /\ UNCHANGED nonServer

\* a timer that is due as soon as it is set (the delay read as undefined)
TimerDueAtOnce(w, t) == t >= w.startedAt

\* setTimeout(..., timeToHostCandidates): the callback runs at or after the delay
TimerDue(w, t) == t >= w.startedAt + TIME_TO_HOST_CANDIDATES

\* the timeout callback: resolve if some candidate was found, else reject
TimeoutOutcome(w) == IF w.total > 0 THEN "resolved" ELSE "rejected"

\* the timer of a wait fires; nothing awaits or catches the promise, so a
\* rejection stays unhandled
Timeout(c, k) ==
  /\ k \in 1..Len(waits[c])
  /\ waits[c][k].timer
  /\ TimerDue(waits[c][k], now)
  /\ waits' = [waits EXCEPT ![c][k] =
                 [@ EXCEPT !.timer = FALSE, !.listening = FALSE,
                           !.status = TimeoutOutcome(waits[c][k]), !.settledAt = now]]
  /\ UNCHANGED <<now, enableAudio, enableVideo, nextId, routeVars, localDescription,
                 inflight, additionalCandidates, discovered, queuedLog, returnedLog>>
  /\ lastResponse' = NoResponse
  /\ lastStreams' = NoStreams /\ lastRequest' = NoRequest
  /\ UNCHANGED nonServer

\* a poll that leaves the queue as it is
QueueAfterPollKept(queue) == queue

\* connection.additionalCandidates = []
QueueAfterPoll(queue) == <<>>

\* GET /connections/{id}/additional-candidates
Poll(c) ==
  /\ IF c \in connections
       THEN /\ lastResponse' = Response("poll", c, 200)
            /\ additionalCandidates' =
                 [additionalCandidates EXCEPT ![c] = QueueAfterPoll(@)]
            /\ returnedLog' = [returnedLog EXCEPT ![c] = @ \o additionalCandidates[c]]
       ELSE /\ lastResponse' = Response("poll", c, 404)
            /\ UNCHANGED <<additionalCandidates, returnedLog>>
  /\ UNCHANGED <<now, enableAudio, enableVideo, nextId, routeVars, localDescription,
                 inflight, waits, discovered, queuedLog>>
  /\ lastStreams' = NoStreams /\ lastRequest' = Request("poll", IdOf(c))
  /\ UNCHANGED nonServer

\* connectionsManager.getConnection(ids[0]): the connection whose id the first
\* run of 24 letters and digits of the path spells, 0 if the registry has none
getConnection(path) == IF path.prefix \in connections THEN path.prefix ELSE 0

\* a remote-description endpoint that applies the answer without the lookup
RemoteDescriptionStatusNoLookup(found, ok) == IF ok THEN 200 ELSE 400

\* if (!connection) end(res, 404); try { applyAnswer ... res.end() } catch { end(res, 400) }
RemoteDescriptionStatus(found, ok) == IF ~found THEN 404 ELSE IF ok THEN 200 ELSE 400

\* POST /connections/{id}/remote-description: ok is whether JSON.parse(body)
\* and setRemoteDescription(answer) succeed; the peer session takes an answer
\* only while it has a local offer pending
RemoteDescription(path, ok) ==
  /\ LET c == getConnection(path)
     IN  IF ~RouteMatches(path)
           THEN /\ ~ok
                /\ lastResponse' = Response("remote-description", 0, 404)
                /\ UNCHANGED peer
         ELSE IF ~OneId(path)
           THEN /\ ~ok
                /\ lastResponse' = Response("remote-description", 0, 400)
                /\ UNCHANGED peer
         ELSE /\ ok => ( /\ c # 0
                         /\ ~peer[c].closed
                         /\ peer[c].signalingState = "have-local-offer" )
              /\ lastResponse' = Response("remote-description", c,
                                          RemoteDescriptionStatus(c # 0, ok))
              /\ peer' = IF ok THEN [peer EXCEPT ![c].signalingState = "stable"] ELSE peer
  /\ lastRequest' = Request("remote-description", path)
  /\ lastStreams' = NoStreams
  /\ UNCHANGED <<now, enableAudio, enableVideo, nextId, connections, connState,
                 transceivers, audio, video, audioMap, videoMap, localDescription,
                 inflight, gatherVars>>
  /\ UNCHANGED nonServer

\* POST /connections/{id}/close: connection?.close(); the handler ends no response
CloseEndpoint(c) ==
  /\ IF c \in connections
       THEN close(c, peer)
       ELSE UNCHANGED routeVars
  /\ UNCHANGED <<now, enableAudio, enableVideo, nextId, transceivers, audio, video,
                 localDescription, inflight, gatherVars>>
  /\ lastResponse' = NoResponse
  /\ lastStreams' = NoStreams /\ lastRequest' = Request("close", IdOf(c))
  /\ UNCHANGED nonServer

\* the states the transport of a peer session can move to
NextConnectionStates(cur) ==
  CASE cur = "new" -> {"connected", "failed"}
    [] cur = "connected" -> {"disconnected", "failed"}
    [] cur = "disconnected" -> {"connected", "failed"}
    [] OTHER -> {}

\* peerConnection.onconnectionstatechange:
\* if (connectionState === 'disconnected') this.close()
ConnectionStateChange(c, s) ==
  /\ connState[c] = "open"
  /\ ~peer[c].closed
  /\ s \in NextConnectionStates(peer[c].connectionState)
  /\ IF s = "disconnected"
       THEN close(c, [peer EXCEPT ![c].connectionState = s])
       ELSE /\ peer' = [peer EXCEPT ![c].connectionState = s]
            /\ UNCHANGED <<connections, connState, audioMap, videoMap>>
  /\ UNCHANGED <<now, enableAudio, enableVideo, nextId, transceivers, audio, video,
                 localDescription, inflight, gatherVars>>
  /\ lastResponse' = NoResponse
  /\ lastStreams' = NoStreams /\ lastRequest' = NoRequest
  /\ UNCHANGED nonServer

\* POST /connections/{id}/streams: the channel ids of myConnection.videoMap and
\* myConnection.audioMap by the mid of their transceivers
Streams(c) ==
  /\ IF c \in connections
       THEN /\ lastResponse' = Response("streams", c, 200)
            /\ lastStreams' =
                 [id |-> c,
                  audio |-> MidToChannel(InOrder(DOMAIN audioMap[c]), audioMap[c],
                                         transceivers[c], EmptyMap),
                  video |-> MidToChannel(InOrder(DOMAIN videoMap[c]), videoMap[c],
                                         transceivers[c], EmptyMap)]
       ELSE /\ lastResponse' = Response("streams", c, 404)
            /\ lastStreams' = NoStreams
  /\ UNCHANGED <<now, enableAudio, enableVideo, nextId, routeVars, localDescription,
                 inflight, gatherVars>>
  /\ lastRequest' = Request("streams", IdOf(c))
  /\ UNCHANGED nonServer


(***************************************************************************)
(* The client's handshake: ConnectionsManagerClient.connect and reconnect  *)
(***************************************************************************)
\* the Math.random() draws of one call: all lowest, all highest, all tiny
JitterProfiles == {[k \in 1..attempts |-> d] : d \in JitterDraws}

\* how the part of connect() or reconnect() after the timers are set can end:
\* the answer is posted, the peer session rejects a description, the post of
\* the answer fails
AnswerOutcomes == {"ok", "sdpError", "fetchError"}

\* the datachannel event that fires while connect() awaits the post of its
\* answer: none, the channel with the configured label, a channel with another
EarlyChannels == {None, "label", "other"}

\* what a fetch of the additional candidates can bring: a body with
\* candidates, a response that is not ok, a network failure
PollOutcomes == {"candidates", "notOk", "networkError"}

NoResult == [op |-> None, result |-> None, failedFetch |-> FALSE]

ClientIdle ==
  /\ stage = "idle"
  /\ timers = {}
  /\ scheduled = <<>>
  /\ fetched = <<>>
  /\ received = 0
  /\ clientResult = NoResult
  /\ lpc = None
  /\ unhandled = {}
  /\ notified = FALSE
  /\ installed = FALSE
  /\ remote = FALSE
  /\ dataChannel = FALSE
  /\ dcFired = FALSE
  /\ closedEvent = FALSE
  /\ userData = FALSE
  /\ disconnectListeners = <<0>>
  /\ disconnectCalls = [k \in 1..MaxCallbacks |-> 0]
  /\ registeredEarly = {}

\* showBackOffIntervals().forEach(ms => setTimeout(..., ms)): one timer per delay
SetTimeouts(delays, phase, t) ==
  {[phase |-> phase, index |-> k, due |-> t + delays[k]] : k \in 1..Len(delays)}

\* PeerConnection.connect on the value connectionsManager.connect() returned,
\* and ClientChannel.onConnect on that: what the onConnect callback is called with
PeerConnectionConnect(error, hasPeer, hasChannel, hasId, hasUserData) ==
  IF error THEN "error"
  ELSE IF ~hasPeer \/ ~hasChannel \/ ~hasId \/ ~hasUserData THEN "error"
  ELSE "ok"

\* the listener the constructor registers on DISCONNECTED is among the listeners
HasRemover(ls) == \E i \in 1..Len(ls) : ls[i] = 0

\* a DISCONNECTED emit that leaves the listeners registered
RemainingListenersKept(ls) == ls

\* bridge.emit(DISCONNECTED): the constructor's listener calls
\* bridge.removeAllListeners()
RemainingListeners(ls) == IF HasRemover(ls) THEN <<>> ELSE ls

\* bridge.emit(DISCONNECTED): every listener registered when the emit starts runs
EmitDisconnected ==
  /\ \A k \in 1..MaxCallbacks : disconnectCalls[k] < MaxInvocations
  /\ notified' = TRUE
  /\ disconnectCalls' =
       [k \in 1..MaxCallbacks |->
          IF \E i \in 1..Len(disconnectListeners) : disconnectListeners[i] = k
            THEN disconnectCalls[k] + 1 ELSE disconnectCalls[k]]
  /\ disconnectListeners' = RemainingListeners(disconnectListeners)
  /\ listeners' = IF RemainingListeners(disconnectListeners) = <<>> THEN <<>> ELSE listeners
  /\ UNCHANGED registeredEarly

\* ClientChannel.onDisconnect(callback)
OnDisconnect ==
  /\ \E k \in 1..MaxCallbacks :
       /\ disconnectCalls[k] = 0
       /\ k \notin registeredEarly
       /\ \A i \in 1..Len(disconnectListeners) : disconnectListeners[i] # k
       /\ \A j \in 1..(k - 1) :
            \/ j \in registeredEarly
            \/ \E i \in 1..Len(disconnectListeners) : disconnectListeners[i] = j
       /\ disconnectListeners' = Append(disconnectListeners, k)
       /\ registeredEarly' = IF HasRemover(disconnectListeners)
                                THEN registeredEarly \cup {k} ELSE registeredEarly
  /\ notified' = FALSE
  /\ unhandled' = {}
  /\ installed' = FALSE
  /\ UNCHANGED <<stage, timers, scheduled, fetched, received, clientResult, lpc,
                 closedEvent, handshakeVars, disconnectCalls, now, nonClient>>

\* connect() up to its first await on the new peer session: the POST of
\* /connections fails or its body is not JSON (fetchOk false) and the call
\* returns the error; otherwise the peer session is constructed and the polls
\* are scheduled
ClientConnect(fetchOk, draws, hasUserData) ==
  /\ stage \in {"idle", "failed"}
  /\ Len(scheduled) < MaxPhases
  /\ IF ~fetchOk
       THEN /\ ~hasUserData
            /\ stage' = "failed"
            /\ clientResult' = [op |-> "connect", result |-> "error", failedFetch |-> TRUE]
            /\ UNCHANGED <<timers, scheduled, fetched, received, lpc, handshakeVars>>
       ELSE LET delays == showBackOffIntervals(draws)
                phase == Len(scheduled) + 1
            IN /\ received' = received + 1
               /\ timers' = timers \cup SetTimeouts(delays, phase, now)
               /\ scheduled' = Append(scheduled, Len(delays))
               /\ fetched' = Append(fetched, 0)
               /\ stage' = "handshake"
               /\ lpc' = "new"
               /\ remote' = FALSE
               /\ dataChannel' = FALSE
               /\ dcFired' = FALSE
               /\ userData' = hasUserData
               /\ UNCHANGED clientResult
  /\ unhandled' = {}
  /\ notified' = FALSE
  /\ installed' = FALSE
  /\ UNCHANGED <<closedEvent, bridgeVars, now, nonClient>>

\* connect() from await setRemoteDescription to the wait for the data channel:
\* an error of the peer session closes it, a failed post of the answer does
\* not; if the channel with the label has come by then, connect() returns
ClientAnswer(answer, early) ==
  /\ stage = "handshake"
  /\ early # None => answer = "ok"
  /\ CASE answer = "sdpError" ->
            /\ lpc' = "closed"
            /\ stage' = "failed"
            /\ clientResult' = [op |-> "connect", result |-> "error", failedFetch |-> FALSE]
            /\ UNCHANGED <<remote, dataChannel, dcFired>>
       [] answer = "fetchError" ->
            /\ remote' = TRUE
            /\ stage' = "failed"
            /\ clientResult' = [op |-> "connect", result |-> "error", failedFetch |-> TRUE]
            /\ UNCHANGED <<lpc, dataChannel, dcFired>>
       [] OTHER ->
            /\ remote' = TRUE
            /\ lpc' = IF early = None THEN lpc ELSE "connected"
            /\ dcFired' = (early # None)
            /\ dataChannel' = (early = "label")
            /\ IF early = "label"
                 THEN LET r == PeerConnectionConnect(FALSE, TRUE, TRUE, TRUE, userData)
                      IN  /\ stage' = IF r = "ok" THEN "connected" ELSE "failed"
                          /\ clientResult' = [op |-> "connect", result |-> r,
                                              failedFetch |-> FALSE]
                 ELSE /\ stage' = "awaiting"
                      /\ UNCHANGED clientResult
  /\ unhandled' = {}
  /\ notified' = FALSE
  /\ installed' = FALSE
  /\ UNCHANGED <<timers, scheduled, fetched, received, userData, closedEvent, bridgeVars,
                 now, nonClient>>

\* the datachannel event while connect() waits for it: onDataChannel keeps the
\* channel if it has the label, then waitForDataChannel resolves and connect()
\* returns
DataChannelEvent(labelled) ==
  /\ stage = "awaiting"
  /\ ~dcFired
  /\ lpc = "connected"
  /\ dcFired' = TRUE
  /\ dataChannel' = labelled
  /\ LET r == PeerConnectionConnect(FALSE, TRUE, labelled, TRUE, userData)
     IN  /\ stage' = IF r = "ok" THEN "connected" ELSE "failed"
         /\ clientResult' = [op |-> "connect", result |-> r, failedFetch |-> FALSE]
  /\ unhandled' = {}
  /\ notified' = FALSE
  /\ installed' = FALSE
  /\ UNCHANGED <<timers, scheduled, fetched, received, lpc, remote, userData, closedEvent,
                 bridgeVars, now, nonClient>>

\* reconnect(id): the same with the POST of /connections/{id}/reconnect; an
\* error of the peer session is logged and the call returns nothing
ClientReconnect(fetchOk, draws, answer) ==
  /\ stage = "connected"
  /\ Len(scheduled) < MaxPhases
  /\ IF ~fetchOk
       THEN /\ clientResult' = [op |-> "reconnect", result |-> "error",
                                failedFetch |-> TRUE]
            /\ UNCHANGED <<timers, scheduled, fetched, received>>
       ELSE LET delays == showBackOffIntervals(draws)
                phase == Len(scheduled) + 1
            IN /\ received' = received + 1
               /\ timers' = timers \cup SetTimeouts(delays, phase, now)
               /\ scheduled' = Append(scheduled, Len(delays))
               /\ fetched' = Append(fetched, 0)
               /\ clientResult' = [op |-> "reconnect",
                                   result |-> IF answer = "fetchError" THEN "error"
                                                                       ELSE "undefined",
                                   failedFetch |-> answer = "fetchError"]
  /\ unhandled' = {}
  /\ notified' = FALSE
  /\ installed' = FALSE
  /\ UNCHANGED <<stage, lpc, closedEvent, handshakeVars, bridgeVars, now, nonClient>>

\* the earliest pending timer fires and its callback fetches the additional
\* candidates of the connection and hands them to this.localPeerConnection:
\* nothing catches a rejection of the fetch, nor of addIceCandidate, which a
\* peer session that is closed or has no remote description rejects
fetchAdditionalCandidates(t, outcome) ==
  /\ t \in timers
  /\ \A u \in timers : t.due <= u.due
  /\ now' = IF t.due > now THEN t.due ELSE now
  /\ timers' = timers \ {t}
  /\ fetched' = [fetched EXCEPT ![t.phase] = @ + 1]
  /\ installed' = (outcome = "candidates")
  /\ unhandled' =
       CASE outcome = "networkError" -> {"fetchAdditionalCandidates"}
         [] outcome = "candidates" /\ (lpc = "closed" \/ ~remote) -> {"addIceCandidate"}
         [] OTHER -> {}
  /\ notified' = FALSE
  /\ UNCHANGED <<stage, scheduled, received, clientResult, lpc, closedEvent, handshakeVars,
                 bridgeVars, nonClient>>

\* ClientChannel.close(): the peer session is closed, DISCONNECTED is emitted
\* and the close endpoint is posted to; the fetch is neither awaited nor given
\* a catch. No timer is cleared, and a channel that is closed already is not
\* told apart.
ClientClose(fetchOk) ==
  /\ stage \in {"connected", "closed"}
  /\ stage' = "closed"
  /\ lpc' = "closed"
  /\ closedEvent' = (closedEvent \/ lpc # "closed")
  /\ EmitDisconnected
  /\ unhandled' = IF fetchOk THEN {} ELSE {"close"}
  /\ installed' = FALSE
  /\ UNCHANGED <<timers, scheduled, fetched, received, clientResult, handshakeVars, now>>
  /\ UNCHANGED <<receivedReliableMessages, emits, lastEmit, accepted, recorded, dupSince>>
  /\ UNCHANGED <<backoffVars, serverVars>>

\* the transport of the peer session changes state once both descriptions are
\* applied, and a peer session that was closed may report the state closed;
\* lpc.onconnectionstatechange, set once the channel is connected, emits
\* DISCONNECTED if the state is disconnected or closed
ClientConnectionStateChange(s) ==
  /\ IF s = "closed"
       THEN stage = "closed" /\ closedEvent
       ELSE stage \in {"awaiting", "connected"} /\ s \in NextConnectionStates(lpc)
  /\ lpc' = s
  /\ closedEvent' = (closedEvent /\ s # "closed")
  /\ IF stage \in {"connected", "closed"} /\ s \in {"disconnected", "closed"}
       THEN EmitDisconnected
       ELSE notified' = FALSE /\ UNCHANGED <<listeners, bridgeVars>>
  /\ unhandled' = {}
  /\ installed' = FALSE
  /\ UNCHANGED <<stage, timers, scheduled, fetched, received, clientResult, handshakeVars,
                 now>>
  /\ UNCHANGED <<receivedReliableMessages, emits, lastEmit, accepted, recorded, dupSince>>
  /\ UNCHANGED <<backoffVars, serverVars>>

(***************************************************************************)
(* The specifications and the claims                                       *)
(***************************************************************************)
LedgerNext ==
  \/ \E ev \in EventNames : On(ev)
  \/ \E ev \in EventNames, data \in Envelopes, skew \in ClockSkews : Emit(ev, data, skew)
  \/ \E d \in ClockSteps : Tick(d)

InitLedger == now = 0 /\ LedgerInit /\ BackoffIdle /\ ServerIdle /\ ClientIdle

SpecLedger == InitLedger /\ [][LedgerNext]_vars

\* the last envelope was a reliable one, received by the channel's only listener
OneListenerReliable ==
  /\ Len(listeners) = 1
  /\ lastEmit.heard = 1
  /\ lastEmit.data.RELIABLE = 1

\* C1: with one registered listener, a reliable envelope that arrives less than
\* 15 s after the last delivered envelope of the same ID is dropped (the callback
\* is not invoked), the first envelope of an ID is delivered, and a delivery
\* invokes the callback once, with the MESSAGE payload.
C1_DuplicatesWithinWindowDropped ==
  OneListenerReliable =>
    /\ (lastEmit.prevAccepted >= 0 /\ lastEmit.at < lastEmit.prevAccepted + expireTime)
          => lastEmit.invoked = <<>>
    /\ lastEmit.prevAccepted < 0 => Len(lastEmit.invoked) = 1
    /\ Len(lastEmit.invoked) <= 1
    /\ \A j \in 1..Len(lastEmit.invoked) : lastEmit.invoked[j].arg = lastEmit.data.MESSAGE

\* a duplicate arrived 10 s after the delivered envelope and was dropped
C1_Witness ==
  /\ OneListenerReliable
  /\ lastEmit.prevAccepted >= 0
  /\ lastEmit.at > lastEmit.prevAccepted
  /\ lastEmit.at < lastEmit.prevAccepted + expireTime
  /\ lastEmit.invoked = <<>>

\* C2: whatever else the ledger holds, a reliable envelope whose ID was recorded
\* at least 15 s ago, with no envelope of that ID in between, is delivered again.
C2_RedeliveredAfterExpiry ==
  ( /\ OneListenerReliable
    /\ lastEmit.prevRecorded >= 0
    /\ ~lastEmit.prevDup
    /\ lastEmit.at >= lastEmit.prevRecorded + expireTime )
  => Len(lastEmit.invoked) = 1

\* C22: after a reliable envelope was received by a listener, the ledger holds
\* no record whose expiry time is at or before the time of the prune pass,
\* wherever the expired records stood in the ledger.
C22_PruneRemovesEveryExpired ==
  (lastEmit.ev # None /\ lastEmit.data.RELIABLE = 1 /\ lastEmit.heard > 0) =>
    \A k \in 1..Len(receivedReliableMessages) :
      receivedReliableMessages[k].expire > lastEmit.at

\* C25: the first copy of a reliable envelope (its ID is not in the ledger when
\* it arrives) invokes the callback of every listener of its event once.
C25_EveryListenerGetsFirstCopy ==
  ( /\ lastEmit.ev # None
    /\ lastEmit.data.RELIABLE = 1
    /\ NotTracked(lastEmit.before, lastEmit.data.ID) )
  => /\ Len(lastEmit.invoked) = lastEmit.heard
     /\ \A k \in 1..Len(listeners) :
          listeners[k] = lastEmit.ev =>
            Cardinality({j \in 1..Len(lastEmit.invoked) :
                           lastEmit.invoked[j].listener = k}) = 1

(***************************************************************************)
(* The backoff schedule as a function of the random draws                  *)
(***************************************************************************)
BackoffNext == ShowBackOffIntervals

InitBackoff == now = 0 /\ LedgerInit /\ BackoffInit /\ ServerIdle /\ ClientIdle

SpecBackoff == InitBackoff /\ [][BackoffNext]_vars

\* C10: for every attempt index i and every jitter draw,
\* 50 * 1.8^i <= delay < 50 * 1.8^i + 20.
C10_DelayWithinRealBounds ==
  \A k \in 1..Len(intervals) :
    /\ BaseNum(k - 1) <= intervals[k] * BaseDen(k - 1)
    /\ (intervals[k] - jitter) * BaseDen(k - 1) < BaseNum(k - 1)

\* C10 as amended: the base is truncated to an integer before the jitter is
\* added, so 50 * 1.8^i - 1 < delay < 50 * 1.8^i + 20.
C10_DelayWithinTruncatedBounds ==
  \A k \in 1..Len(intervals) :
    /\ BaseNum(k - 1) < (intervals[k] + 1) * BaseDen(k - 1)
    /\ (intervals[k] - jitter) * BaseDen(k - 1) < BaseNum(k - 1)

\* the schedule was computed and the delay of attempt 3 is below 50 * 1.8^3 = 291.6
C10_Witness ==
  /\ Len(intervals) = attempts
  /\ intervals[4] * BaseDen(3) < BaseNum(3)

\* C24: the delays of one phase are strictly increasing, whatever the draws.
C24_DelaysStrictlyIncreasing ==
  \A k \in 1..(Len(intervals) - 1) : intervals[k] < intervals[k + 1]

\* the schedule was computed with the largest jitter term on the first delay
\* and the smallest on the second: 50 + 19 and 90 + 0
C24_Witness ==
  /\ Len(intervals) = attempts
  /\ intervals[1] = initial + jitter - 1
  /\ intervals[2] = BackoffBase(1)

(***************************************************************************)
(* The server's routing: connections are created and closed                *)
(***************************************************************************)
Init == now = 0 /\ LedgerInit /\ BackoffIdle /\ ServerInit(1, BOOLEAN, BOOLEAN) /\ ClientIdle

Next ==
  \/ CreateConnection
  \/ \E c \in ConnIds, k \in 1..MaxOffers, ok \in BOOLEAN : CreateOffer(c, k, ok)
  \/ \E c \in ConnIds, k \in 1..MaxOffers, ok \in BOOLEAN, regather \in BOOLEAN :
       SetLocalDescription(c, k, ok, regather)
  \/ \E c \in ConnIds : CloseEndpoint(c)
  \/ \E c \in ConnIds, s \in {"connected", "disconnected", "failed"} :
       ConnectionStateChange(c, s)
  \/ \E c \in ConnIds : Streams(c)

Spec == Init /\ [][Next]_vars

\* C3: with video enabled, any two live connections each hold a video route for
\* the other: an entry of videoMap that names a video transceiver of their own
\* peer session forwarding the other's track.
C3_VideoRoutingSymmetric ==
  enableVideo =>
    \A a \in ConnIds, b \in ConnIds :
      (a # b /\ Live(a) /\ Live(b)) =>
        /\ b \in DOMAIN videoMap[a]
        /\ videoMap[a][b] \in 1..Len(transceivers[a])
        /\ transceivers[a][videoMap[a][b]].kind = "video"
        /\ transceivers[a][videoMap[a][b]].track = b

\* two connections are live with video enabled
C3_Witness ==
  /\ enableVideo
  /\ \E a \in ConnIds, b \in ConnIds : a < b /\ Live(a) /\ Live(b)

C5_AudioVideoIndependent ==
  \A c \in ConnIds :
    Live(c) =>
      /\ (audio[c] # 0) <=> enableAudio
      /\ (video[c] # 0) <=> enableVideo
      /\ \A b \in ConnIds :
           (b # c /\ Live(b)) =>
             /\ (b \in DOMAIN audioMap[c]) <=> enableAudio
             /\ (b \in DOMAIN videoMap[c]) <=> enableVideo

\* C16: every key of an audio or video map the streams endpoint returns is an
\* assigned mid: no route is listed under the unassigned (null) mid.
C16_StreamsKeysAreAssignedMids ==
  /\ \A m \in DOMAIN lastStreams.audio : m # 0
  /\ \A m \in DOMAIN lastStreams.video : m # 0

\* C20: when the transport of a connected peer session becomes disconnected or
\* failed, the server closes the connection in the same step.
C20_TransportLossCloses ==
  [][\A c \in ConnIds :
       ( /\ connState[c] = "open"
         /\ peer[c].connectionState = "connected"
         /\ peer'[c].connectionState \in {"disconnected", "failed"} )
       => connState'[c] = "closed"]_vars

\* C17: a request to the close endpoint is answered with status 200.
C17_CloseIsAnswered ==
  lastRequest.op = "close" =>
    (lastResponse.op = "close" /\ lastResponse.status = 200)

(***************************************************************************)
(* The negotiation rounds: offers, answers and renegotiation               *)
(***************************************************************************)
InitRounds ==
  now = 0 /\ LedgerInit /\ BackoffIdle /\ ServerInit(1, {FALSE}, BOOLEAN) /\ ClientIdle

RoundsNext ==
  \/ CreateConnection
  \/ \E c \in ConnIds, k \in 1..MaxOffers, ok \in BOOLEAN : CreateOffer(c, k, ok)
  \/ \E c \in ConnIds, k \in 1..MaxOffers, ok \in BOOLEAN :
       SetLocalDescription(c, k, ok, FALSE)
  \/ \E c \in ConnIds : Reconnect(c)
  \/ \E path \in PathIds, ok \in BOOLEAN : RemoteDescription(path, ok)
  \/ \E c \in ConnIds : CloseEndpoint(c)

SpecRounds == InitRounds /\ [][RoundsNext]_vars

\* a connection is Active when its latest offer is installed and answered and
\* no round of it is under way
Active(c) ==
  /\ Live(c)
  /\ localDescription[c] >= 1
  /\ peer[c].signalingState = "stable"
  /\ inflight[c] = <<>>

\* C13: a renegotiation round is started only on a connection that is Active.
C13_ReconnectOnlyWhenActive ==
  [][\A c \in ConnIds :
       (connState[c] # None /\ Len(inflight'[c]) > Len(inflight[c])) => Active(c)]_vars

\* C14: no step changes a connection's own audio or video transceiver once it
\* is created, and no step other than the creation of a connection adds a
\* transceiver to a connection or changes one's kind or track.
C14_RoutesReusedAcrossRounds ==
  [][\A c \in ConnIds :
       connState[c] # None =>
         /\ video'[c] = video[c]
         /\ audio'[c] = audio[c]
         /\ nextId' = nextId =>
              /\ Len(transceivers'[c]) = Len(transceivers[c])
              /\ \A i \in 1..Len(transceivers[c]) :
                   /\ transceivers'[c][i].kind = transceivers[c][i].kind
                   /\ transceivers'[c][i].track = transceivers[c][i].track]_vars

\* a connection with a video route has installed the offer of a renegotiation
C14_Witness ==
  \E c \in ConnIds : Live(c) /\ video[c] # 0 /\ localDescription[c] >= 2

\* C15: when a reconnect fails on an open connection that has installed an
\* offer before, the connection stays open.
C15_FailedReconnectKeepsActive ==
  [][\A c \in ConnIds :
       ( /\ Live(c)
         /\ localDescription[c] >= 1
         /\ lastResponse' = Response("reconnect", c, 400) )
       => connState'[c] = "open"]_vars

C23_OneRoundAtATime ==
  [][\A c \in ConnIds :
       ( \/ localDescription'[c] = localDescription[c] + 1
         \/ \E k \in 1..Len(inflight[c]) :
              /\ inflight[c][k].stage = "createOffer"
              /\ k <= Len(inflight'[c])
              /\ inflight'[c][k].stage = "setLocalDescription" )
       => /\ peer[c].signalingState # "have-local-offer"
          /\ Len(inflight[c]) = 1]_vars

InitGather ==
  now = 0 /\ LedgerInit /\ BackoffIdle /\ ServerInit(MaxConns, {FALSE}, {FALSE}) /\ ClientIdle

GatherNext ==
  \/ CreateConnection
  \/ \E c \in ConnIds, k \in 1..MaxOffers, ok \in BOOLEAN : CreateOffer(c, k, ok)
  \/ \E c \in ConnIds, k \in 1..MaxOffers, ok \in BOOLEAN, regather \in BOOLEAN :
       SetLocalDescription(c, k, ok, regather)
  \/ \E c \in ConnIds : Reconnect(c)
  \/ \E c \in ConnIds : IceCandidate(c)
  \/ \E c \in ConnIds : IceGatheringComplete(c)
  \/ \E c \in ConnIds, k \in 1..MaxOffers : Timeout(c, k)
  \/ \E c \in ConnIds : Poll(c)
  \/ \E c \in ConnIds : CloseEndpoint(c)
  \/ \E c \in ConnIds, s \in {"connected", "disconnected", "failed"} :
       ConnectionStateChange(c, s)
  \/ \E d \in ClockSteps : Tick(d)

SpecGather == InitGather /\ [][GatherNext]_vars

\* C6: when the deadline of a readiness wait elapses with no candidate found,
\* the connection is closed and the request that made the offer is answered
\* with an error.
C6_TimeoutTearsDownAndReports ==
  \A c \in ConnIds :
    \A k \in 1..Len(waits[c]) :
      waits[c][k].status = "rejected" =>
        /\ connState[c] = "closed"
        /\ waits[c][k].answered # 200

\* C12: once a connection is closed none of its readiness waits is left
\* pending: no deadline timer of it is armed and no candidate listener of it is
\* attached.
C12_CloseCancelsWait ==
  \A c \in ConnIds :
    connState[c] = "closed" =>
      \A k \in 1..Len(waits[c]) :
        /\ waits[c][k].status # "pending"
        /\ ~waits[c][k].timer
        /\ ~waits[c][k].listening

\* C7: a readiness wait fails only by its timer firing, at or after 10 s, with
\* no candidate counted.
C7_FailureOnlyAtDeadline ==
  \A c \in ConnIds :
    \A k \in 1..Len(waits[c]) :
      waits[c][k].status = "rejected" =>
        /\ waits[c][k].settledAt >= waits[c][k].startedAt + 10000
        /\ waits[c][k].total = 0
        /\ ~waits[c][k].timer

\* a wait has failed
C7_Witness ==
  \E c \in ConnIds : \E k \in 1..Len(waits[c]) : waits[c][k].status = "rejected"

\* C8: the polls of a connection return the candidates in the order they were
\* queued, each queued entry once: what the polls have returned so far followed
\* by what is queued now is everything that was ever queued, which is in
\* discovery order.
C8_PollsDrainQueueOnce ==
  \A c \in ConnIds :
    /\ returnedLog[c] \o additionalCandidates[c] = queuedLog[c]
    /\ \A i \in 1..Len(queuedLog[c]) : \A j \in i..Len(queuedLog[c]) :
         queuedLog[c][i] <= queuedLog[c][j]

\* C27: no candidate is queued twice, and a connection has at most one
\* candidate listener at a time.
C27_CandidateQueuedOnce ==
  \A c \in ConnIds :
    /\ \A i \in 1..Len(queuedLog[c]) : \A j \in 1..Len(queuedLog[c]) :
         i # j => queuedLog[c][i] # queuedLog[c][j]
    /\ Cardinality({k \in 1..Len(waits[c]) : waits[c][k].listening}) <= 1

\* a poll has returned a candidate and another one was queued after it
C8_Witness ==
  \E c \in ConnIds :
    /\ Len(returnedLog[c]) >= 1
    /\ Len(additionalCandidates[c]) >= 1

(***************************************************************************)
(* The client's gathering phases: connect, reconnects and the poll timers  *)
(***************************************************************************)
InitClient == now = 0 /\ LedgerInit /\ BackoffIdle /\ ServerIdle /\ ClientIdle

ClientNext ==
  \/ \E fetchOk \in BOOLEAN, draws \in JitterProfiles, hasUserData \in BOOLEAN :
       ClientConnect(fetchOk, draws, hasUserData)
  \/ \E answer \in AnswerOutcomes, early \in EarlyChannels : ClientAnswer(answer, early)
  \/ \E labelled \in BOOLEAN : DataChannelEvent(labelled)
  \/ \E fetchOk \in BOOLEAN, draws \in JitterProfiles, answer \in AnswerOutcomes :
       ClientReconnect(fetchOk, draws, answer)
  \/ \E t \in timers, outcome \in PollOutcomes : fetchAdditionalCandidates(t, outcome)
  \/ \E fetchOk \in BOOLEAN : ClientClose(fetchOk)
  \/ \E s \in {"connected", "disconnected", "failed", "closed"} :
       ClientConnectionStateChange(s)

SpecClient == InitClient /\ [][ClientNext]_vars

PendingOf(phase) == {t \in timers : t.phase = phase}

\* C9: every connect() and reconnect() that received the server's description,
\* and no other call, scheduled fetches of the additional candidates, and it
\* scheduled exactly 10 of them: each is either still pending or was made once.
C9_TenFetchesPerPhase ==
  /\ Len(scheduled) = received
  /\ \A p \in 1..Len(scheduled) :
       /\ scheduled[p] = 10
       /\ Cardinality(PendingOf(p)) + fetched[p] = 10
       /\ fetched[p] <= 10

\* a connect and a reconnect both received a description: the ten fetches of
\* the first have all been made and some of the second, and the reconnect returned
C9_Witness ==
  /\ Len(scheduled) = 2
  /\ fetched[1] = 10
  /\ fetched[2] >= 1
  /\ clientResult.op = "reconnect"
  /\ clientResult.result = "undefined"

\* C11: no poll timer's callback runs (fetching the additional candidates)
\* once the client's peer session is closed.
C11_CloseCancelsPollTimers == [][fetched' # fetched => lpc # "closed"]_vars

\* C19: no promise of the client's signaling is rejected with nothing to catch
\* it, and a connect or reconnect call in which a fetch failed returns an error.
C19_NetworkFailuresAreReturned ==
  /\ unhandled = {}
  /\ clientResult.failedFetch => clientResult.result = "error"

\* C26: the poller hands candidates to a peer session only after the server's
\* description was applied to it as its remote description.
C26_CandidatesAfterRemoteDescription == installed => remote

(***************************************************************************)
(* The client channel's lifetime: onConnect, onDisconnect and close        *)
(***************************************************************************)
InitChannel == now = 0 /\ LedgerInit /\ BackoffIdle /\ ServerIdle /\ ClientIdle

ChannelNext ==
  \/ \E fetchOk \in BOOLEAN, draws \in JitterProfiles, hasUserData \in BOOLEAN :
       ClientConnect(fetchOk, draws, hasUserData)
  \/ \E answer \in AnswerOutcomes, early \in EarlyChannels : ClientAnswer(answer, early)
  \/ \E labelled \in BOOLEAN : DataChannelEvent(labelled)
  \/ \E s \in {"connected", "disconnected", "failed", "closed"} :
       ClientConnectionStateChange(s)
  \/ \E fetchOk \in BOOLEAN : ClientClose(fetchOk)
  \/ OnDisconnect

SpecChannel == InitChannel /\ [][ChannelNext]_vars

\* C21: a close() of a client channel that is closed already changes nothing,
\* invokes no onDisconnect callback and leaves no rejection uncaught.
C21_SecondCloseHasNoEffect ==
  [][(stage = "closed" /\ notified') =>
       /\ UNCHANGED <<stage, lpc, disconnectListeners, disconnectCalls>>
       /\ unhandled' = {}]_vars

C29_OnConnectCalledOnce ==
  /\ (clientResult.op = "connect" /\ clientResult.result = "ok") =>
       (lpc # None /\ dataChannel /\ userData)
  /\ stage = "awaiting" => (~dcFired /\ lpc \in {"new", "connected"})

====
